---- MODULE Spec2Model ----
(***************************************************************************)
(* Model of meta/gen_encoding.py: the generator of the instruction        *)
(* encoding tables (level 1 / level 2 tables, encoding lists as u16        *)
(* words, the check_instp dispatcher and the ENCLISTS array).              *)
(***************************************************************************)
EXTENDS Integers, Sequences, FiniteSets, TLC

VARIABLES
    isa,        \* the ISA description: [cpumodes, all_instps]
    pc,         \* position of gen_isa (or of the caller of EncList.encode)
    mode,       \* index of the CPU mode gen_isa is working on
    level1,     \* the Level1Table of the current CPU mode
    cur,        \* number of encoding lists of level1 already encoded
    seq_table,  \* the UniqueSeqTable shared by the lists of one ISA
    doc_table,  \* defaultdict(list): offset -> comment lines
    encoded,    \* every EncList encoded so far: [list, offset, words]
    dispatcher, \* the match arms of the generated check_instp
    out,        \* what emit_enclists wrote to the formatter
    result      \* outcome of the last call of generated / runtime code

vars == <<isa, pc, mode, level1, cur, seq_table, doc_table, encoded,
          dispatcher, out, result>>

(***************************************************************************)
(* Bounds of the model.                                                    *)
(***************************************************************************)
MaxEncs == 3
MaxListLen == 2
MaxInstps == 2

(***************************************************************************)
(* Constants of the u16 representation.                                    *)
(***************************************************************************)
CODE_BITS == 16
PRED_BITS == 12
PRED_MASK == (2 ^ PRED_BITS) - 1
CODE_ALWAYS == PRED_MASK
CODE_FAIL == (2 ^ CODE_BITS) - 1

(***************************************************************************)
(* Generic helpers.                                                        *)
(***************************************************************************)
SeqsUpTo(S, n) == UNION {[1..k -> S] : k \in 0..n}

Min(S) == CHOOSE x \in S : \A y \in S : x <= y

(***************************************************************************)
(* Python's '{:#0Nx}' / '{:0Nx}': the hexadecimal digits of w, most        *)
(* significant first, zero-padded to at least `width` digits.              *)
(***************************************************************************)
RECURSIVE HexDigits(_)
HexDigits(w) == IF w < 16 THEN <<w>> ELSE Append(HexDigits(w \div 16), w % 16)

RECURSIVE PadLeft(_, _)
PadLeft(ds, width) == IF Len(ds) >= width THEN ds ELSE PadLeft(<<0>> \o ds, width)

\* '{:#06x}, '.format(entry): "0x" and at least four digits
FormatWord(entry) == [prefix |-> "0x", digits |-> PadLeft(HexDigits(entry), 4)]

\* '{:06x}'.format(offset): at least six digits, no prefix
FormatOffset(offset) == PadLeft(HexDigits(offset), 6)

\* how a reader of the generated file parses a hexadecimal literal
RECURSIVE HexValue(_)
HexValue(ds) ==
    IF Len(ds) = 0 THEN 0
    ELSE 16 * HexValue(SubSeq(ds, 1, Len(ds) - 1)) + ds[Len(ds)]

(***************************************************************************)
(* The ISA description (input).  An Encoding is a record                   *)
(*   [inst, ty, instp, recipe, encbits, cpumode]                           *)
(* where ty is what enc.ctrl_typevar() returns ("None" for no controlling  *)
(* type), instp is <<>> for None and <<n>> for an instruction predicate    *)
(* whose .number is n, recipe is enc.recipe.number.                        *)
(***************************************************************************)
None == "None"
Insts == {"iadd", "jump"}
Types == {None, "i32"}
Formats == {"Binary", "BinaryImm"}
\* isa.cpumodes, in order
CpuModes == <<"RV32", "RV64">>

\* the two candidates of the round-trip example: (P1, 5, 0x01), (-, 7, 0x02)
Cands ==
    { [instp |-> <<0>>, recipe |-> 5, encbits |-> 1],
      [instp |-> <<>>,  recipe |-> 7, encbits |-> 2] }

\* candidates around the reserved values of the u16 representation
PredNumbers == {0, CODE_ALWAYS - 1, CODE_ALWAYS, CODE_ALWAYS + 1}
EdgeCands ==
    [instp : {<<>>} \cup {<<n>> : n \in PredNumbers},
     recipe : {5, 7},
     encbits : {1, CODE_FAIL}]

Encoding(c, inst, ty, m) ==
    [inst |-> inst, ty |-> ty, instp |-> c.instp, recipe |-> c.recipe,
     encbits |-> c.encbits, cpumode |-> m]

(***************************************************************************)
(* seq_doc                                                                 *)
(***************************************************************************)
\* seq_doc with the recipe number and the encoding bits in the wrong order
seq_doc_swapped(enc) ==
    LET p == IF enc.instp # <<>> THEN enc.instp[1] ELSE CODE_ALWAYS
    IN  [ok |-> p <= CODE_ALWAYS,
         seq |-> <<p, enc.encbits, enc.recipe>>,
         doc |-> [enc |-> enc, when |-> enc.instp]]

seq_doc(enc) ==
    LET p == IF enc.instp # <<>> THEN enc.instp[1] ELSE CODE_ALWAYS
        doc == IF enc.instp # <<>>
               THEN [enc |-> enc, when |-> enc.instp]
               ELSE [enc |-> enc, when |-> <<>>]
    IN  [ok |-> p <= CODE_ALWAYS,        \* assert p <= CODE_ALWAYS
         seq |-> <<p, enc.recipe, enc.encbits>>,
         doc |-> doc]

(***************************************************************************)
(* UniqueSeqTable (unique_table.py): the list `table` and, for every       *)
(* stored sequence, the offset one past its end.  add returns the offset   *)
(* of a stored copy of seq (a stored sequence or a tail of one) and        *)
(* appends seq to the table only when there is none.                       *)
(***************************************************************************)
UniqueSeqTable == [table |-> <<>>, ends |-> {}]

StoredAt(st, seq) ==
    { o \in 0..(Len(st.table) - Len(seq)) :
        /\ (o + Len(seq)) \in st.ends
        /\ \A e \in st.ends : ~(o < e /\ e < o + Len(seq))
        /\ SubSeq(st.table, o + 1, o + Len(seq)) = seq }

UniqueSeqTable_add(st, seq) ==
    IF StoredAt(st, seq) # {}
    THEN [seq_table |-> st, offset |-> Min(StoredAt(st, seq))]
    ELSE [seq_table |-> [table |-> st.table \o seq,
                         ends |-> st.ends \cup {Len(st.table) + Len(seq)}],
          offset |-> Len(st.table)]

(***************************************************************************)
(* doc_table = defaultdict(list); doc_table[k].append(line)                *)
(***************************************************************************)
\* doc_table[k] = [line] instead of doc_table[k].append(line)
DocAppend_overwrite(dt, k, line) ==
    IF k \in DOMAIN dt
    THEN [dt EXCEPT ![k] = <<line>>]
    ELSE dt @@ (k :> <<line>>)

DocAppend(dt, k, line) ==
    IF k \in DOMAIN dt
    THEN [dt EXCEPT ![k] = Append(@, line)]
    ELSE dt @@ (k :> <<line>>)

(***************************************************************************)
(* EncList: [inst, ty, encodings]                                          *)
(***************************************************************************)
EncList(inst, ty) == [inst |-> inst, ty |-> ty, encodings |-> <<>>]

EncList_name(ls) ==
    [inst |-> ls.inst,
     ty |-> IF ls.ty # None THEN <<ls.ty>> ELSE <<>>,
     cpumode |-> IF ls.encodings # <<>> THEN <<ls.encodings[1].cpumode>> ELSE <<>>]

\* the loop of EncList.encode over self.encodings
RECURSIVE EncodeLoop(_, _, _, _)
EncodeLoop(encodings, idx, words, docs) ==
    IF idx > Len(encodings)
    THEN [ok |-> TRUE, words |-> words, docs |-> docs]
    ELSE LET sd == seq_doc(encodings[idx])
         IN  IF ~sd.ok
             THEN [ok |-> FALSE, words |-> words, docs |-> docs]
             ELSE EncodeLoop(encodings, idx + 1, words \o sd.seq,
                             Append(docs, [pos |-> Len(words), doc |-> sd.doc]))

\* for pos, doc in docs: doc_table[self.offset + pos].append(doc)
RECURSIVE AddDocs(_, _, _, _)
AddDocs(dt, offset, docs, k) ==
    IF k > Len(docs) THEN dt
    ELSE AddDocs(DocAppend(dt, offset + docs[k].pos, docs[k].doc),
                 offset, docs, k + 1)

NameLine(offset, ls) == [offset |-> FormatOffset(offset), name |-> EncList_name(ls)]

\* the words EncList.encode passes to seq_table.add
EncodeWords(built) == Append(built.words, CODE_FAIL)

\* the offset the words would have had they been appended to the table
RecordedOffset_appended(added, words) == Len(added.seq_table.table) - Len(words)

\* self.offset = seq_table.add(words)
RecordedOffset(added, words) == added.offset

EncList_encode(ls, st, dt) ==
    LET built == EncodeLoop(ls.encodings, 1, <<>>, <<>>)
        words == EncodeWords(built)
        added == UniqueSeqTable_add(st, words)
        offset == RecordedOffset(added, words)
    IN  IF ~built.ok
        THEN [ok |-> FALSE, seq_table |-> st, doc_table |-> dt,
              offset |-> 0, words |-> <<>>]
        ELSE [ok |-> TRUE, seq_table |-> added.seq_table,
              doc_table |-> AddDocs(DocAppend(dt, offset, NameLine(offset, ls)),
                                    offset, built.docs, 1),
              offset |-> offset, words |-> words]

(***************************************************************************)
(* Level2Table / Level1Table: OrderedDicts, as sequences in insertion      *)
(* order of [inst, ty, encodings] and of [ty, lists].                      *)
(***************************************************************************)
\* position of key in the keys of an ordered dict (0: dict.get returns None)
KeyIndex(keys, key) ==
    IF \E k \in 1..Len(keys) : keys[k] = key
    THEN Min({k \in 1..Len(keys) : keys[k] = key})
    ELSE 0

Level2Table(ty) == [ty |-> ty, lists |-> <<>>]

Level2Table_getitem(tbl, inst) ==
    LET k == KeyIndex([j \in 1..Len(tbl.lists) |-> tbl.lists[j].inst], inst)
    IN  IF k = 0
        THEN [tbl |-> [tbl EXCEPT !.lists = Append(@, EncList(inst, tbl.ty))],
              idx |-> Len(tbl.lists) + 1]
        ELSE [tbl |-> tbl, idx |-> k]

Level1Table == <<>>

\* a Level2Table that tests false: every lookup creates a new one
Level1Table_getitem_fresh(tables, ty) ==
    [tables |-> Append(tables, Level2Table(ty)), idx |-> Len(tables) + 1]

Level1Table_getitem(tables, ty) ==
    LET k == KeyIndex([j \in 1..Len(tables) |-> tables[j].ty], ty)
    IN  IF k = 0
        THEN [tables |-> Append(tables, Level2Table(ty)), idx |-> Len(tables) + 1]
        ELSE [tables |-> tables, idx |-> k]

\* table[ty][inst].encodings.append(enc)
TableAppend(table, enc) ==
    LET l1 == Level1Table_getitem(table, enc.ty)
        l2 == Level2Table_getitem(l1.tables[l1.idx], enc.inst)
    IN  [l1.tables EXCEPT ![l1.idx] =
            [l2.tbl EXCEPT !.lists[l2.idx].encodings = Append(@, enc)]]

RECURSIVE MakeTablesLoop(_, _, _)
MakeTablesLoop(table, encodings, k) ==
    IF k > Len(encodings) THEN table
    ELSE MakeTablesLoop(TableAppend(table, encodings[k]), encodings, k + 1)

make_tables(cpumode) == MakeTablesLoop(Level1Table, cpumode.encodings, 1)

\* the order in which encode_enclists visits the lists of level1
RECURSIVE EncLists(_, _)
EncLists(tables, k) ==
    IF k > Len(tables) THEN <<>>
    ELSE tables[k].lists \o EncLists(tables, k + 1)

(***************************************************************************)
(* emit_instps / emit_instp: the generated function check_instp is a match *)
(* with one arm per predicate, in the order of instps, and a default arm.  *)
(***************************************************************************)
emit_instp(instp) == [number |-> instp.number, iform |-> instp.iform]

emit_instps(instps) == [k \in 1..Len(instps) |-> emit_instp(instps[k])]

(***************************************************************************)
(* The generated check_instp(inst, instp_idx).  inst is                    *)
(* [format, holds]: its InstructionData variant and the numbers of the     *)
(* predicates whose rust_predicate expression is true of its fields.       *)
(***************************************************************************)
\* a default arm that returns false instead of panicking
check_instp_lenient(arms, inst, instp_idx) ==
    LET k == KeyIndex([j \in 1..Len(arms) |-> arms[j].number], instp_idx)
    IN  IF k = 0
        THEN [kind |-> "return", value |-> FALSE]
        ELSE IF inst.format = arms[k].iform
        THEN [kind |-> "return", value |-> (arms[k].number \in inst.holds)]
        ELSE [kind |-> "panic", msg |-> "Bad format"]

check_instp(arms, inst, instp_idx) ==
    LET k == KeyIndex([j \in 1..Len(arms) |-> arms[j].number], instp_idx)
    IN  IF k = 0
        THEN [kind |-> "panic", msg |-> "Invalid instruction predicate"]
        ELSE IF inst.format = arms[k].iform
        THEN [kind |-> "return", value |-> (arms[k].number \in inst.holds)]
        ELSE [kind |-> "panic", msg |-> "Bad format"]

(***************************************************************************)
(* emit_enclists: the declared length and the comment / word lines.        *)
(***************************************************************************)
RECURSIVE EmitDocs(_, _, _)
EmitDocs(items, docs, k) ==
    IF k > Len(docs) THEN items
    ELSE EmitDocs(Append(items, [kind |-> "comment", doc |-> docs[k], words |-> <<>>]),
                  docs, k + 1)

FlushLine(items, line) ==
    IF line # <<>>
    THEN Append(items, [kind |-> "line", doc |-> <<>>, words |-> line])
    ELSE items

RECURSIVE EmitLoop(_, _, _, _, _)
EmitLoop(table, dt, idx, line, items) ==
    IF idx >= Len(table) THEN FlushLine(items, line)
    ELSE IF idx \in DOMAIN dt
    THEN EmitLoop(table, dt, idx + 1, <<FormatWord(table[idx + 1])>>,
                  EmitDocs(FlushLine(items, line), dt[idx], 1))
    ELSE EmitLoop(table, dt, idx + 1, Append(line, FormatWord(table[idx + 1])), items)

DeclaredLength(st) == Len(st.table)

emit_enclists(st, dt) ==
    [emitted |-> TRUE,
     decl_len |-> DeclaredLength(st),
     items |-> EmitLoop(st.table, dt, 0, <<>>, <<>>)]

(***************************************************************************)
(* The runtime scan of an encoding list (module docstring, "Encoding       *)
(* lists", and the comments on CODE_ALWAYS / CODE_FAIL).  holds is the set *)
(* of instruction predicate numbers that are true of the instruction,      *)
(* isap the set of ISA predicate numbers that are true.                    *)
(***************************************************************************)
RECURSIVE Lookup(_, _, _, _)
Lookup(table, pos, holds, isap) ==
    IF pos >= Len(table) THEN [kind |-> "overrun", recipe |-> 0, bits |-> 0]
    ELSE LET w == table[pos + 1]
         IN  IF w = CODE_FAIL
             THEN [kind |-> "illegal", recipe |-> 0, bits |-> 0]
             ELSE IF w <= CODE_ALWAYS
             THEN IF w = CODE_ALWAYS \/ w \in holds
                  THEN [kind |-> "encoding", recipe |-> table[pos + 2],
                        bits |-> table[pos + 3]]
                  ELSE Lookup(table, pos + 3, holds, isap)
             ELSE IF (w % (2 ^ PRED_BITS)) \in isap
             THEN Lookup(table, pos + 1, holds, isap)
             ELSE IF w \div (2 ^ PRED_BITS) = 0
             THEN [kind |-> "illegal", recipe |-> 0, bits |-> 0]
             ELSE Lookup(table, pos + 1 + 3 * (w \div (2 ^ PRED_BITS)), holds, isap)

(***************************************************************************)
(* gen_isa                                                                 *)
(***************************************************************************)
NoResult == [kind |-> "none"]
NoOutput == [emitted |-> FALSE, decl_len |-> 0, items |-> <<>>]

\* a new UniqueSeqTable for every CPU mode
SeqTableOfMode_fresh(st) == UniqueSeqTable

\* seq_table = UniqueSeqTable() once per ISA: every mode gets the same one
SeqTableOfMode(st) == st

Start(i) ==
    /\ isa = i
    /\ pc = "emit_instps"
    /\ mode = 0
    /\ level1 = Level1Table
    /\ cur = 0
    /\ seq_table = UniqueSeqTable
    /\ doc_table = <<>>
    /\ encoded = <<>>
    /\ dispatcher = <<>>
    /\ out = NoOutput
    /\ result = NoResult

EmitInstps ==
    /\ pc = "emit_instps"
    /\ dispatcher' = emit_instps(isa.all_instps)
    /\ mode' = 1
    /\ pc' = IF Len(isa.cpumodes) = 0 THEN "emit_enclists" ELSE "make_tables"
    /\ UNCHANGED <<isa, level1, cur, seq_table, doc_table, encoded, out, result>>

MakeTables ==
    /\ pc = "make_tables"
    /\ level1' = make_tables(isa.cpumodes[mode])
    /\ cur' = 0
    /\ seq_table' = SeqTableOfMode(seq_table)
    /\ pc' = "encode_enclists"
    /\ UNCHANGED <<isa, mode, doc_table, encoded, dispatcher, out, result>>

\* one iteration of encode_enclists: enclist.encode(seq_table, doc_table)
EncodeEnclist ==
    /\ pc = "encode_enclists"
    /\ cur < Len(EncLists(level1, 1))
    /\ LET ls == EncLists(level1, 1)[cur + 1]
           r == EncList_encode(ls, seq_table, doc_table)
       IN  /\ seq_table' = r.seq_table
           /\ doc_table' = r.doc_table
           /\ encoded' = IF r.ok
                         THEN Append(encoded, [list |-> ls, offset |-> r.offset,
                                               words |-> r.words])
                         ELSE encoded
           /\ result' = [kind |-> "encode", ok |-> r.ok, list |-> ls]
           /\ pc' = IF r.ok THEN "encode_enclists" ELSE "failed"
    /\ cur' = cur + 1
    /\ UNCHANGED <<isa, mode, level1, dispatcher, out>>

\* encode_enclists returns; next cpumode of isa.cpumodes, or the emitter
NextMode ==
    /\ pc = "encode_enclists"
    /\ cur = Len(EncLists(level1, 1))
    /\ IF mode < Len(isa.cpumodes)
       THEN mode' = mode + 1 /\ pc' = "make_tables"
       ELSE mode' = mode /\ pc' = "emit_enclists"
    /\ UNCHANGED <<isa, level1, cur, seq_table, doc_table, encoded, dispatcher,
                   out, result>>

EmitEnclists ==
    /\ pc = "emit_enclists"
    /\ out' = emit_enclists(seq_table, doc_table)
    /\ pc' = "done"
    /\ UNCHANGED <<isa, mode, level1, cur, seq_table, doc_table, encoded,
                   dispatcher, result>>

EncPool == {Encoding(c, inst, ty, CpuModes[m]) :
                c \in Cands, inst \in Insts, ty \in Types, m \in 1..Len(CpuModes)}

ModeOf(flat, m) ==
    LET InMode(e) == e.cpumode = m
    IN  [name |-> m, encodings |-> SelectSeq(flat, InMode)]

Init ==
    \E flat \in SeqsUpTo(EncPool, MaxEncs) :
        Start([cpumodes |-> [m \in 1..Len(CpuModes) |-> ModeOf(flat, CpuModes[m])],
               all_instps |-> <<[number |-> 0, iform |-> "Binary"]>>])

Next == EmitInstps \/ MakeTables \/ EncodeEnclist \/ NextMode \/ EmitEnclists

Spec == Init /\ [][Next]_vars

(***************************************************************************)
(* EncList.encode called on one EncList with fresh tables, and the runtime *)
(* scan of the list it interned.                                           *)
(***************************************************************************)
EncodeCall ==
    /\ pc = "call"
    /\ \E encs \in SeqsUpTo({Encoding(c, "iadd", "i32", "RV32") : c \in EdgeCands},
                            MaxListLen) :
         LET ls == [EncList("iadd", "i32") EXCEPT !.encodings = encs]
             r == EncList_encode(ls, seq_table, doc_table)
         IN  /\ seq_table' = r.seq_table
             /\ doc_table' = r.doc_table
             /\ encoded' = IF r.ok
                           THEN Append(encoded, [list |-> ls, offset |-> r.offset,
                                                 words |-> r.words])
                           ELSE encoded
             /\ result' = [kind |-> "encode", ok |-> r.ok, list |-> ls]
             /\ pc' = IF r.ok THEN "called" ELSE "failed"
    /\ UNCHANGED <<isa, mode, level1, cur, dispatcher, out>>

LookupCall ==
    /\ pc = "called"
    /\ \E holds \in SUBSET PredNumbers :
         result' = [kind |-> "lookup", holds |-> holds,
                    sel |-> Lookup(seq_table.table, encoded[Len(encoded)].offset,
                                   holds, {})]
    /\ pc' = "looked"
    /\ UNCHANGED <<isa, mode, level1, cur, seq_table, doc_table, encoded,
                   dispatcher, out>>

InitEncList ==
    /\ isa = [cpumodes |-> <<>>, all_instps |-> <<>>]
    /\ pc = "call"
    /\ mode = 0
    /\ level1 = Level1Table
    /\ cur = 0
    /\ seq_table = UniqueSeqTable
    /\ doc_table = <<>>
    /\ encoded = <<>>
    /\ dispatcher = <<>>
    /\ out = NoOutput
    /\ result = NoResult

NextEncList == EncodeCall \/ LookupCall

SpecEncList == InitEncList /\ [][NextEncList]_vars

(***************************************************************************)
(* The dispatcher: emit_instps for the predicates of an ISA, then calls of *)
(* the generated check_instp.                                              *)
(***************************************************************************)
CheckInstpCall ==
    /\ pc # "emit_instps"
    /\ \E fmt \in Formats :
       \E holds \in SUBSET {isa.all_instps[k].number : k \in 1..Len(isa.all_instps)} :
       \E idx \in 0..(Len(isa.all_instps) + 1) :
         LET inst == [format |-> fmt, holds |-> holds]
         IN  result' = [kind |-> "check_instp", inst |-> inst, idx |-> idx,
                        ret |-> check_instp(dispatcher, inst, idx)]
    /\ UNCHANGED <<isa, pc, mode, level1, cur, seq_table, doc_table, encoded,
                   dispatcher, out>>

\* isa.all_instps: the predicates carry the numbers 0, 1, ... in order
AllInstps == UNION {[1..n -> Formats] : n \in 0..MaxInstps}

InitInstps ==
    \E fs \in AllInstps :
        Start([cpumodes |-> <<>>,
               all_instps |-> [k \in 1..Len(fs) |-> [number |-> k - 1, iform |-> fs[k]]]])

NextInstps == EmitInstps \/ CheckInstpCall

SpecInstps == InitInstps /\ [][NextInstps]_vars

(***************************************************************************)
(* Properties.                                                             *)
(***************************************************************************)
Last(s) == s[Len(s)]

\* the (predicate, recipe, bits) candidates of a list, in list order
CandsOf(ls) ==
    [i \in 1..Len(ls.encodings) |->
        <<ls.encodings[i].instp, ls.encodings[i].recipe, ls.encodings[i].encbits>>]

(* C1: whenever EncList.encode hands the interner the words of a list      *)
(* e1..en with n >= 1, there are exactly 3n+1 words, words 3(i-1),         *)
(* 3(i-1)+1, 3(i-1)+2 (counted from 0) are the predicate field, the recipe *)
(* number and the encoding bits of ei, the predicate field being the       *)
(* predicate's number, or 4095 when ei has no predicate, and the last word *)
(* is 65535.                                                               *)
C1_WordLayout ==
    \A k \in 1..Len(encoded) :
        LET L == encoded[k].list.encodings
            w == encoded[k].words
            n == Len(L)
        IN  n >= 1 =>
              /\ Len(w) = 3 * n + 1
              /\ \A i \in 1..n :
                    /\ w[3 * (i - 1) + 1] = IF L[i].instp = <<>> THEN 4095
                                            ELSE L[i].instp[1]
                    /\ w[3 * (i - 1) + 2] = L[i].recipe
                    /\ w[3 * (i - 1) + 3] = L[i].encbits
              /\ w[3 * n + 1] = 65535

C1_Witness ==
    /\ pc = "called"
    /\ Len(encoded) = 1
    /\ Len(encoded[1].list.encodings) = 2
    /\ encoded[1].list.encodings[1].instp = <<0>>
    /\ encoded[1].list.encodings[2].instp = <<>>
    /\ encoded[1].list.encodings[1].recipe # encoded[1].list.encodings[1].encbits

(* C2: every word sequence EncList.encode produces ends with 65535 and     *)
(* holds 65535 at no other position.                                       *)
C2_FailOnlyLast ==
    \A k \in 1..Len(encoded) :
        LET w == encoded[k].words
        IN  /\ w[Len(w)] = 65535
            /\ \A j \in 1..(Len(w) - 1) : w[j] # 65535

(* C3: an encoding whose predicate has number 4094 is built, with          *)
(* predicate field 4094; a list with an encoding whose predicate has       *)
(* number 4095 or more is rejected and nothing is interned for it.         *)
C3_PredicateBoundary ==
    result.kind = "encode" =>
        LET L == result.list.encodings
        IN  /\ (\E i \in 1..Len(L) : L[i].instp # <<>> /\ L[i].instp[1] >= 4095)
                  => /\ ~result.ok
                     /\ encoded = <<>>
                     /\ seq_table.table = <<>>
            /\ (Len(L) = 1 /\ L[1].instp = <<4094>>)
                  => /\ result.ok
                     /\ Last(encoded).words[1] = 4094
                     /\ Last(encoded).words[1] # CODE_ALWAYS

(* C4: the runtime scan of the words produced for e1..en selects the       *)
(* recipe and bits of the first ei that has no predicate or whose          *)
(* predicate is true, and reports no legal encoding exactly when there is  *)
(* no such ei.                                                             *)
C4_FirstMatchWins ==
    result.kind = "lookup" =>
        LET L == Last(encoded).list.encodings
            applies == {i \in 1..Len(L) :
                          L[i].instp = <<>> \/ L[i].instp[1] \in result.holds}
        IN  IF applies = {}
            THEN result.sel.kind = "illegal"
            ELSE result.sel = [kind |-> "encoding",
                               recipe |-> L[Min(applies)].recipe,
                               bits |-> L[Min(applies)].encbits]

(* C7: EncList.encode on a list with no encodings fails: it interns        *)
(* nothing, records no offset and adds no annotation.                      *)
C7_EmptyListRejected ==
    (result.kind = "encode" /\ result.list.encodings = <<>>) =>
        /\ ~result.ok
        /\ seq_table = UniqueSeqTable
        /\ doc_table = <<>>
        /\ encoded = <<>>

(* C5: when a list is encoded whose candidates (predicate numbers, recipe  *)
(* numbers, encoding bits, in order) are those of a list encoded earlier   *)
(* in the same pass, whatever their CPU modes and type / opcode keys, it   *)
(* gets the same offset and the interned table does not grow.              *)
C5_SameListSameOffset ==
    [][(pc = "encode_enclists" /\ Len(encoded') = Len(encoded) + 1) =>
          \A j \in 1..Len(encoded) :
              CandsOf(encoded[j].list) = CandsOf(Last(encoded').list) =>
                  /\ Last(encoded').offset = encoded[j].offset
                  /\ seq_table'.table = seq_table.table]_vars

C5_Witness ==
    \E j, k \in 1..Len(encoded) :
        /\ j < k
        /\ CandsOf(encoded[j].list) = CandsOf(encoded[k].list)
        /\ Len(encoded[j].list.encodings) >= 1
        /\ encoded[j].list.inst # encoded[k].list.inst
        /\ encoded[j].list.encodings[1].cpumode # encoded[k].list.encodings[1].cpumode
        /\ encoded[j].offset = encoded[k].offset

(* C6: make_tables partitions the encodings of the CPU mode: the level 1   *)
(* keys are distinct and so are the opcodes of each level 2 table, every   *)
(* list is non-empty and holds exactly the encodings of the mode with its  *)
(* controlling type and opcode, in the order of cpumode.encodings, and     *)
(* every encoding has its list; so the encodings without controlling type  *)
(* are all under the one None entry.                                       *)
C6_TablesPartition ==
    pc \in {"encode_enclists", "emit_enclists", "done"} =>
        LET encs == isa.cpumodes[mode].encodings
        IN  /\ \A a, b \in 1..Len(level1) : level1[a].ty = level1[b].ty => a = b
            /\ \A a \in 1..Len(level1) :
                 LET lists == level1[a].lists
                 IN  /\ \A b, c \in 1..Len(lists) :
                            lists[b].inst = lists[c].inst => b = c
                     /\ \A b \in 1..Len(lists) :
                          LET Mine(e) == e.ty = level1[a].ty /\ e.inst = lists[b].inst
                          IN  /\ Len(lists[b].encodings) >= 1
                              /\ lists[b].ty = level1[a].ty
                              /\ lists[b].encodings = SelectSeq(encs, Mine)
            /\ \A i \in 1..Len(encs) :
                 \E a \in 1..Len(level1) : \E b \in 1..Len(level1[a].lists) :
                    /\ level1[a].ty = encs[i].ty
                    /\ level1[a].lists[b].inst = encs[i].inst

C6_Witness ==
    /\ pc = "encode_enclists"
    /\ Len(level1) = 2
    /\ \E a \in 1..2 : level1[a].ty = None /\ Len(level1[a].lists) = 2
    /\ isa.cpumodes[mode].encodings[1].ty = None
    /\ isa.cpumodes[mode].encodings[2].ty # None
    /\ isa.cpumodes[mode].encodings[3].ty = None

(* C8: check_instp called with a predicate number in 0 .. N-1 on an        *)
(* instruction of the format that predicate expects returns the value of   *)
(* the predicate; with a registered number on an instruction of another    *)
(* format, and with any other number, it panics.                           *)
C8_DispatcherTotal ==
    result.kind = "check_instp" =>
        LET N == Len(isa.all_instps)
        IN  IF result.idx \in 0..(N - 1)
            THEN IF result.inst.format = isa.all_instps[result.idx + 1].iform
                 THEN result.ret = [kind |-> "return",
                                    value |-> (result.idx \in result.inst.holds)]
                 ELSE result.ret.kind = "panic"
            ELSE result.ret.kind = "panic"

C8_Witness ==
    /\ result.kind = "check_instp"
    /\ Len(isa.all_instps) = 2
    /\ result.idx = 1
    /\ result.ret = [kind |-> "return", value |-> TRUE]

\* the number of lines the encoded lists put under key K
RECURSIVE Contributions(_, _, _)
Contributions(enc, K, k) ==
    IF k > Len(enc) THEN 0
    ELSE (IF enc[k].offset = K THEN 1 ELSE 0)
         + Cardinality({i \in 1..Len(enc[k].list.encodings) :
                            enc[k].offset + 3 * (i - 1) = K})
         + Contributions(enc, K, k + 1)

RECURSIVE WordsOf(_, _)
WordsOf(items, k) ==
    IF k > Len(items) THEN <<>>
    ELSE items[k].words \o WordsOf(items, k + 1)

WordsBefore(items, j) == Len(WordsOf(SubSeq(items, 1, j - 1), 1))

\* the comments emitted at word index K, in order
CommentsAt(items, K) ==
    LET idxs == {j \in 1..Len(items) :
                    items[j].kind = "comment" /\ WordsBefore(items, j) = K}
        RECURSIVE Pick(_)
        Pick(j) == IF j > Len(items) THEN <<>>
                   ELSE IF j \in idxs THEN <<items[j].doc>> \o Pick(j + 1)
                   ELSE Pick(j + 1)
    IN  Pick(1)

HasLine(dt, K, line) == K \in DOMAIN dt /\ \E j \in 1..Len(dt[K]) : dt[K][j] = line

(* C9: once every CPU mode is encoded, the name line of each encoded list  *)
(* is under its offset o and the line of candidate i under o + 3(i-1),     *)
(* lines of lists that share keys all being kept; every key is below the   *)
(* length of the table; emit_enclists writes the lines of key K right      *)
(* before word K, and writes the words it would write with no annotations. *)
C9_Annotations ==
    pc \in {"emit_enclists", "done"} =>
        /\ \A k \in 1..Len(encoded) :
             LET e == encoded[k]
                 L == e.list.encodings
             IN  /\ HasLine(doc_table, e.offset,
                            [offset |-> FormatOffset(e.offset),
                             name |-> EncList_name(e.list)])
                 /\ \A i \in 1..Len(L) :
                        HasLine(doc_table, e.offset + 3 * (i - 1),
                                [enc |-> L[i], when |-> L[i].instp])
        /\ \A K \in DOMAIN doc_table :
             /\ Len(doc_table[K]) = Contributions(encoded, K, 1)
             /\ K < Len(seq_table.table)
        /\ out.emitted =>
             /\ \A K \in DOMAIN doc_table : CommentsAt(out.items, K) = doc_table[K]
             /\ \A j \in 1..Len(out.items) :
                  out.items[j].kind = "comment" =>
                     /\ WordsBefore(out.items, j) \in DOMAIN doc_table
                     /\ j < Len(out.items)
                     /\ \/ out.items[j + 1].kind = "comment"
                        \/ out.items[j + 1].words[1] =
                             FormatWord(seq_table.table[WordsBefore(out.items, j) + 1])
             /\ WordsOf(out.items, 1) = WordsOf(emit_enclists(seq_table, <<>>).items, 1)
             /\ [j \in 1..Len(WordsOf(out.items, 1)) |->
                    HexValue(WordsOf(out.items, 1)[j].digits)] = seq_table.table

C9_Witness ==
    /\ pc = "done"
    /\ Len(encoded) = 2
    /\ \E j, k \in 1..2 :
          /\ encoded[j].offset = 0
          /\ Len(encoded[j].list.encodings) = 2
          /\ encoded[k].offset = 3
          /\ Len(doc_table[3]) = 3
    /\ Len(seq_table.table) = 7

(* C10: every list encoded so far with offset o and n candidates has its   *)
(* 3n+1 words at positions o .. o+3n of the current table, and the length  *)
(* declared for ENCLISTS is the number of words of the table.              *)
C10_OffsetsValid ==
    /\ \A k \in 1..Len(encoded) :
         LET e == encoded[k]
             n == Len(e.list.encodings)
         IN  /\ Len(e.words) = 3 * n + 1
             /\ e.offset + 3 * n + 1 <= Len(seq_table.table)
             /\ SubSeq(seq_table.table, e.offset + 1, e.offset + 3 * n + 1) = e.words
    /\ out.emitted => out.decl_len = Len(seq_table.table)

C10_Witness ==
    /\ out.emitted
    /\ Len(encoded) = 3
    /\ encoded[1].offset = 0
    /\ encoded[2].offset = 4
    /\ encoded[3].offset = 0
    /\ out.decl_len = 8

====
